---- MODULE Spec2Model ----
(***************************************************************************)
(* The CIE XYZ colour type of src/src/xyz.rs: its constructors, the        *)
(* ColorSpace, Mix and Shade implementations, the channel-wise arithmetic  *)
(* operators and the conversions into XYZ.                                 *)
(*                                                                         *)
(* Xyz<T> is generic over T: Float.  T is modelled as a small binary       *)
(* floating-point format with round-to-nearest-even, gradual underflow,    *)
(* signed zeros, infinities and NaN.  A finite value is held as the        *)
(* integer number of units it is worth, one unit being the smallest        *)
(* subnormal; 1.0 is Pow2(OneExp) units.                                   *)
(***************************************************************************)
EXTENDS Integers

VARIABLES self, other, scalar, from, result, op, steps

vars == <<self, other, scalar, from, result, op, steps>>

(***************************************************************************)
(* The floating-point format T.                                            *)
(***************************************************************************)

\* Bits of the significand, the hidden bit included.
PrecBits == 3

\* 1.0 is 2^OneExp units.
OneExp == 10

\* The largest exponent of a unit multiple: the largest finite value is
\* (2^PrecBits - 1) * 2^ExpMax units.
ExpMax == 17

\* Operations applied in a row to one value.
MaxSteps == 1

Pow2(n) == 2 ^ n

One == Pow2(OneExp)

MaxFinite == (Pow2(PrecBits) - 1) * Pow2(ExpMax)

Inf == Pow2(PrecBits + ExpMax)

NegInf == 0 - Inf

NaN == Inf + 1

NegZero == Inf + 2

Abs(n) == IF n < 0 THEN 0 - n ELSE n

IsNaN(x) == x = NaN

IsInf(x) == x = Inf \/ x = NegInf

IsZero(x) == x = 0 \/ x = NegZero

IsFinite(x) == ~IsNaN(x) /\ ~IsInf(x)

\* The sign bit.
IsNeg(x) == x = NegZero \/ x < 0

\* The magnitude in units of a value that is not NaN (Inf for an infinity).
Mag(x) == IF x = NegZero THEN 0 ELSE Abs(x)

\* The signed number of units of a value that is not NaN.
Val(x) == IF x = NegZero THEN 0 ELSE x

Signed(neg, mag) ==
    IF mag = 0 THEN (IF neg THEN NegZero ELSE 0)
    ELSE IF neg THEN 0 - mag ELSE mag

\* Whether (p/q) * 2^t < 2^PrecBits, for p >= 0 and q > 0.
Below(p, q, t) ==
    IF t >= 0 THEN p <= (q * Pow2(PrecBits) - 1) \div Pow2(t)
    ELSE p \div Pow2(0 - t) < q * Pow2(PrecBits)

\* The exponent of the spacing of the format around x = (p/q) * 2^s units:
\* the least k >= e with x < 2^(PrecBits + k), capped above ExpMax.
RECURSIVE ExpOf(_, _, _, _)
ExpOf(p, q, s, e) ==
    IF e > ExpMax \/ Below(p, q, s - e) THEN e ELSE ExpOf(p, q, s, e + 1)

\* (p/q) * 2^s units (p >= 0, q > 0) rounded to the nearest value of the
\* format, ties to the even significand; Inf on overflow.
RoundS(p, q, s) ==
    LET e == ExpOf(p, q, s, 0) IN
    IF e > ExpMax THEN Inf
    ELSE LET n == IF s >= e THEN p * Pow2(s - e) ELSE p
             d == IF s >= e THEN q ELSE q * Pow2(e - s)
             m == n \div d
             r == n - m * d
             up == 2 * r > d \/ (2 * r = d /\ m % 2 = 1)
         IN  (IF up THEN m + 1 ELSE m) * Pow2(e)

\* The exponent and the significand of n > 0 units, a value of the format:
\* n = Sig(n) * 2^Exp(n).
Exp(n) == ExpOf(n, 1, 0, 0)

Sig(n) == n \div Pow2(Exp(n))

FNeg(a) ==
    IF IsNaN(a) THEN NaN ELSE Signed(~IsNeg(a), Mag(a))

FAdd(a, b) ==
    IF IsNaN(a) \/ IsNaN(b) THEN NaN
    ELSE IF IsInf(a) /\ IsInf(b) THEN (IF a = b THEN a ELSE NaN)
    ELSE IF IsInf(a) THEN a
    ELSE IF IsInf(b) THEN b
    ELSE LET s == Val(a) + Val(b) IN
         IF s = 0 THEN (IF IsNeg(a) /\ IsNeg(b) THEN NegZero ELSE 0)
         ELSE Signed(s < 0, RoundS(Abs(s), 1, 0))

FSub(a, b) == FAdd(a, FNeg(b))

FMul(a, b) ==
    IF IsNaN(a) \/ IsNaN(b) THEN NaN
    ELSE LET neg == IsNeg(a) # IsNeg(b) IN
         IF IsInf(a) \/ IsInf(b)
         THEN (IF IsZero(a) \/ IsZero(b) THEN NaN ELSE Signed(neg, Inf))
         ELSE IF IsZero(a) \/ IsZero(b) THEN Signed(neg, 0)
         ELSE Signed(neg, RoundS(Sig(Mag(a)) * Sig(Mag(b)), 1,
                                 Exp(Mag(a)) + Exp(Mag(b)) - OneExp))

FDiv(a, b) ==
    IF IsNaN(a) \/ IsNaN(b) THEN NaN
    ELSE LET neg == IsNeg(a) # IsNeg(b) IN
         IF IsInf(a) THEN (IF IsInf(b) THEN NaN ELSE Signed(neg, Inf))
         ELSE IF IsInf(b) THEN Signed(neg, 0)
         ELSE IF IsZero(b) THEN (IF IsZero(a) THEN NaN ELSE Signed(neg, Inf))
         ELSE Signed(neg, RoundS(Sig(Mag(a)), Sig(Mag(b)),
                                 Exp(Mag(a)) - Exp(Mag(b)) + OneExp))

FLt(a, b) == ~IsNaN(a) /\ ~IsNaN(b) /\ Val(a) < Val(b)

FGt(a, b) == FLt(b, a)

FLe(a, b) == ~IsNaN(a) /\ ~IsNaN(b) /\ Val(a) <= Val(b)

FGe(a, b) == FLe(b, a)

FEq(a, b) == ~IsNaN(a) /\ ~IsNaN(b) /\ Val(a) = Val(b)

\* T::from(c).unwrap() of the literal c = num/den, num >= 0: the literal
\* rounded to T.
Lit(num, den) == RoundS(num, den, OneExp)

(***************************************************************************)
(* The colour types.                                                       *)
(***************************************************************************)

\* Xyz { x, y, z, alpha }
Xyz(x, y, z, alpha) == [x |-> x, y |-> y, z |-> z, alpha |-> alpha]

\* T::zero() and T::one()
zero == 0

one == One

\* An xyz that leaves the colour transparent.
xyz_transparent(x, y, z) == Xyz(x, y, z, zero)

\* Xyz::xyz
xyz(x, y, z) == Xyz(x, y, z, one)

\* Xyz::xyza
xyza(x, y, z, alpha) == Xyz(x, y, z, alpha)

\* The derived PartialEq of Xyz: == on every field.
Xyz_eq(a, b) ==
    FEq(a.x, b.x) /\ FEq(a.y, b.y) /\ FEq(a.z, b.z) /\ FEq(a.alpha, b.alpha)

\* The crate's clamp(v, min, max).
clamp(v, min, max) ==
    IF FLt(v, min) THEN min ELSE IF FGt(v, max) THEN max ELSE v

\* ColorSpace::is_valid
is_valid(c) ==
    FGe(c.x, zero) /\ FLe(c.x, one) /\ FGe(c.y, zero) /\
    FLe(c.y, one) /\ FGe(c.z, zero) /\ FLe(c.z, one) /\
    FGe(c.alpha, zero) /\ FLe(c.alpha, one)

\* A clamp_self that hands the bounds to clamp in the wrong order.
clamp_self_swapped(c) ==
    Xyz(clamp(c.x, one, zero), clamp(c.y, one, zero), clamp(c.z, one, zero),
        clamp(c.alpha, one, zero))

\* A clamp_self that forgets the alpha channel.
clamp_self_no_alpha(c) ==
    Xyz(clamp(c.x, zero, one), clamp(c.y, zero, one), clamp(c.z, zero, one),
        c.alpha)

\* ColorSpace::clamp_self: the receiver after the call.
clamp_self(c) ==
    Xyz(clamp(c.x, zero, one), clamp(c.y, zero, one), clamp(c.z, zero, one),
        clamp(c.alpha, zero, one))

\* ColorSpace::clamp: a clamped copy.
Xyz_clamp(c) == clamp_self(c)

\* A mix that takes the difference the wrong way round.
mix_reversed(c, o, f) ==
    LET factor == clamp(f, zero, one) IN
    Xyz(FAdd(c.x, FMul(factor, FSub(c.x, o.x))),
        FAdd(c.y, FMul(factor, FSub(c.y, o.y))),
        FAdd(c.z, FMul(factor, FSub(c.z, o.z))),
        FAdd(c.alpha, FMul(factor, FSub(c.alpha, o.alpha))))

\* A mix that bounds its factor from above only.
mix_no_lower_bound(c, o, f) ==
    LET factor == IF FGt(f, one) THEN one ELSE f IN
    Xyz(FAdd(c.x, FMul(factor, FSub(o.x, c.x))),
        FAdd(c.y, FMul(factor, FSub(o.y, c.y))),
        FAdd(c.z, FMul(factor, FSub(o.z, c.z))),
        FAdd(c.alpha, FMul(factor, FSub(o.alpha, c.alpha))))

\* A mix that uses its factor as given.
mix_unclamped(c, o, f) ==
    Xyz(FAdd(c.x, FMul(f, FSub(o.x, c.x))),
        FAdd(c.y, FMul(f, FSub(o.y, c.y))),
        FAdd(c.z, FMul(f, FSub(o.z, c.z))),
        FAdd(c.alpha, FMul(f, FSub(o.alpha, c.alpha))))

\* Mix::mix
mix(c, o, f) ==
    LET factor == clamp(f, zero, one) IN
    Xyz(FAdd(c.x, FMul(factor, FSub(o.x, c.x))),
        FAdd(c.y, FMul(factor, FSub(o.y, c.y))),
        FAdd(c.z, FMul(factor, FSub(o.z, c.z))),
        FAdd(c.alpha, FMul(factor, FSub(o.alpha, c.alpha))))

\* A lighten that saturates.
lighten_clamped(c, amount) ==
    Xyz(c.x, clamp(FAdd(c.y, amount), zero, one), c.z, c.alpha)

\* Shade::lighten
lighten(c, amount) == Xyz(c.x, FAdd(c.y, amount), c.z, c.alpha)

\* Default::default
default == xyz(zero, zero, zero)

\* Add<Xyz<T>>
add(c, o) ==
    Xyz(FAdd(c.x, o.x), FAdd(c.y, o.y), FAdd(c.z, o.z), FAdd(c.alpha, o.alpha))

\* Add<T>
add_t(c, k) ==
    Xyz(FAdd(c.x, k), FAdd(c.y, k), FAdd(c.z, k), FAdd(c.alpha, k))

\* A Sub<Xyz<T>> that leaves alpha alone.
sub_keep_alpha(c, o) ==
    Xyz(FSub(c.x, o.x), FSub(c.y, o.y), FSub(c.z, o.z), c.alpha)

\* Sub<Xyz<T>>
sub(c, o) ==
    Xyz(FSub(c.x, o.x), FSub(c.y, o.y), FSub(c.z, o.z), FSub(c.alpha, o.alpha))

\* Sub<T>
sub_t(c, k) ==
    Xyz(FSub(c.x, k), FSub(c.y, k), FSub(c.z, k), FSub(c.alpha, k))

\* Mul<Xyz<T>>
mul(c, o) ==
    Xyz(FMul(c.x, o.x), FMul(c.y, o.y), FMul(c.z, o.z), FMul(c.alpha, o.alpha))

\* Mul<T>
mul_t(c, k) ==
    Xyz(FMul(c.x, k), FMul(c.y, k), FMul(c.z, k), FMul(c.alpha, k))

\* Div<Xyz<T>>
div(c, o) ==
    Xyz(FDiv(c.x, o.x), FDiv(c.y, o.y), FDiv(c.z, o.z), FDiv(c.alpha, o.alpha))

\* Div<T>
div_t(c, k) ==
    Xyz(FDiv(c.x, k), FDiv(c.y, k), FDiv(c.z, k), FDiv(c.alpha, k))

(***************************************************************************)
(* The conversions into XYZ.                                               *)
(***************************************************************************)

\* Rgb { red, green, blue, alpha }, the channels linear.
Rgb(r, g, b, alpha) == [red |-> r, green |-> g, blue |-> b, alpha |-> alpha]

\* Luma { luma, alpha }
Luma(l, alpha) == [luma |-> l, alpha |-> alpha]

\* Lab { l, a, b, alpha }
Lab(l, a, b, alpha) == [l |-> l, a |-> a, b |-> b, alpha |-> alpha]

\* A From<Rgb<T>> with the green and blue weights of x exchanged.
from_rgb_swapped(rgb) ==
    Xyz(FAdd(FAdd(FMul(rgb.red, Lit(4124, 10000)),
                  FMul(rgb.green, Lit(1805, 10000))),
             FMul(rgb.blue, Lit(3576, 10000))),
        FAdd(FAdd(FMul(rgb.red, Lit(2126, 10000)),
                  FMul(rgb.green, Lit(7152, 10000))),
             FMul(rgb.blue, Lit(722, 10000))),
        FAdd(FAdd(FMul(rgb.red, Lit(193, 10000)),
                  FMul(rgb.green, Lit(1192, 10000))),
             FMul(rgb.blue, Lit(9505, 10000))),
        rgb.alpha)

\* From<Rgb<T>>
from_rgb(rgb) ==
    Xyz(FAdd(FAdd(FMul(rgb.red, Lit(4124, 10000)),
                  FMul(rgb.green, Lit(3576, 10000))),
             FMul(rgb.blue, Lit(1805, 10000))),
        FAdd(FAdd(FMul(rgb.red, Lit(2126, 10000)),
                  FMul(rgb.green, Lit(7152, 10000))),
             FMul(rgb.blue, Lit(722, 10000))),
        FAdd(FAdd(FMul(rgb.red, Lit(193, 10000)),
                  FMul(rgb.green, Lit(1192, 10000))),
             FMul(rgb.blue, Lit(9505, 10000))),
        rgb.alpha)

\* From<Luma<T>>
from_luma(luma) == Xyz(zero, luma.luma, zero, luma.alpha)

\* tristimulus::{X_N, Y_N, Z_N}: the D65 white point, as T::from gives it.
X_N == Lit(95047, 100000)

Y_N == Lit(1, 1)

Z_N == Lit(108883, 100000)

\* An f_inv whose cubic branch takes the breakpoint too.
f_inv_inclusive(t) ==
    LET c_6_o_29_p_2 == Lit(42806, 1000000) IN
    IF FGe(t, Lit(6, 29))
    THEN FMul(FMul(t, t), t)
    ELSE FMul(FMul(Lit(3, 1), c_6_o_29_p_2), FSub(t, Lit(4, 29)))

\* f_inv; its literal 0.04280618311 is kept to six decimals, which round to
\* the same value of the format.
f_inv(t) ==
    LET c_6_o_29_p_2 == Lit(42806, 1000000) IN
    IF FGt(t, Lit(6, 29))
    THEN FMul(FMul(t, t), t)
    ELSE FMul(FMul(Lit(3, 1), c_6_o_29_p_2), FSub(t, Lit(4, 29)))

\* (1/116) * (l * 100 + 16), the term the three channels of From<Lab<T>> share.
lab_fy(lab) ==
    FMul(FDiv(one, Lit(116, 1)), FAdd(FMul(lab.l, Lit(100, 1)), Lit(16, 1)))

\* From<Lab<T>>
from_lab(lab) ==
    Xyz(FMul(X_N, f_inv(FAdd(lab_fy(lab),
                             FMul(FMul(FDiv(one, Lit(500, 1)), lab.a),
                                  Lit(128, 1))))),
        FMul(Y_N, f_inv(lab_fy(lab))),
        FMul(Z_N, f_inv(FSub(lab_fy(lab),
                             FMul(FMul(FDiv(one, Lit(200, 1)), lab.b),
                                  Lit(128, 1))))),
        lab.alpha)

(***************************************************************************)
(* The inputs.                                                             *)
(***************************************************************************)

\* Colours every channel of which lies in [0, 1].
ValidColors ==
    { default,
      xyz(one, one, one),
      xyza(Lit(1, 10), Lit(7, 10), Lit(9, 10), Lit(1, 2)),
      xyza(Lit(1, One), Lit(1, 4), Lit(3, 4), one),
      xyza(one, Lit(1, One), Lit(3, 10), Lit(2, 10)),
      xyza(Lit(4124, 10000), Lit(2126, 10000), Lit(193, 10000), NegZero),
      xyza(Lit(6, 10), Lit(15, 100), Lit(45, 100), Lit(35, 100)) }

\* Colours with a channel out of range, infinite or NaN.
InvalidColors ==
    { xyza(Lit(2, 1), Lit(5, 4), FNeg(one), Lit(3, 2)),
      xyza(MaxFinite, FNeg(MaxFinite), Inf, NegInf),
      xyza(NaN, Lit(1, 2), NegZero, one),
      xyza(FNeg(Lit(1, 4)), Lit(3, 1), Lit(100, 1), FNeg(Lit(1, One))) }

Colors == ValidColors \cup InvalidColors

Scalars ==
    { NaN, NegInf, FNeg(one), NegZero, zero, Lit(1, One), Lit(1, 4), Lit(1, 2),
      Lit(7, 10), one, Lit(3, 2), Inf }

Rgbs ==
    { Rgb(one, zero, zero, one),
      Rgb(zero, one, zero, one),
      Rgb(zero, zero, one, one),
      Rgb(one, one, one, Lit(1, 2)),
      Rgb(Lit(1, 2), Lit(1, 4), Lit(3, 4), zero),
      Rgb(Lit(2, 1), FNeg(one), Lit(1, 10), Lit(3, 2)),
      Rgb(NaN, Inf, zero, NaN) }

Lumas ==
    { Luma(zero, one), Luma(Lit(1, 2), Lit(1, 4)), Luma(Lit(3, 2), NaN),
      Luma(NegInf, FNeg(one)) }

\* The values From<Lab<T>> hands to f_inv for these inputs lie on both sides
\* of its breakpoint and on it.
Labs ==
    { Lab(l, a, b, alpha) :
        l \in {FNeg(Lit(1, 16)), zero, Lit(1, 16), Lit(1, 4), Lit(1, 2), one},
        a \in {FNeg(Lit(1, 2)), zero, Lit(1, 2), one},
        b \in {zero, Lit(1, 4), one},
        alpha \in {Lit(1, 2)} }
    \cup { Lab(NaN, zero, Inf, NaN) }

\* The value of the variables an operation does not use.
NoXyz == default

NoScalar == zero

NoFrom == [none |-> TRUE]

(***************************************************************************)
(* The state machine: one value, built by a constructor or a conversion,   *)
(* then handed to the operations of the type.  result is the value; self,  *)
(* other, scalar and from are the receiver and the arguments of the        *)
(* operation op that produced it.                                          *)
(***************************************************************************)

Init ==
    /\ \E c \in Colors : result = xyza(c.x, c.y, c.z, c.alpha)
    /\ op = "xyza"
    /\ self = NoXyz
    /\ other = NoXyz
    /\ scalar = NoScalar
    /\ from = NoFrom
    /\ steps = 0

\* A constructor or conversion: no receiver.
Built(name, src, value) ==
    /\ steps < MaxSteps
    /\ op' = name
    /\ self' = NoXyz
    /\ other' = NoXyz
    /\ scalar' = NoScalar
    /\ from' = src
    /\ result' = value
    /\ steps' = steps + 1

\* An operation on the current value with the arguments o and k.
Applied(name, o, k, value) ==
    /\ steps < MaxSteps
    /\ op' = name
    /\ self' = result
    /\ other' = o
    /\ scalar' = k
    /\ from' = NoFrom
    /\ result' = value
    /\ steps' = steps + 1

NewDefault == Built("default", NoFrom, default)

NewXyz == \E c \in Colors : Built("xyz", NoFrom, xyz(c.x, c.y, c.z))

NewXyza == \E c \in Colors : Built("xyza", NoFrom, xyza(c.x, c.y, c.z, c.alpha))

FromRgb == \E rgb \in Rgbs : Built("from_rgb", rgb, from_rgb(rgb))

FromLuma == \E luma \in Lumas : Built("from_luma", luma, from_luma(luma))

FromLab == \E lab \in Labs : Built("from_lab", lab, from_lab(lab))

Clamp == Applied("clamp", NoXyz, NoScalar, Xyz_clamp(result))

ClampSelf == Applied("clamp_self", NoXyz, NoScalar, clamp_self(result))

Mix == \E o \in Colors, f \in Scalars : Applied("mix", o, f, mix(result, o, f))

Lighten == \E amount \in Scalars :
    Applied("lighten", NoXyz, amount, lighten(result, amount))

Add == \E o \in Colors : Applied("add", o, NoScalar, add(result, o))

AddT == \E c \in Scalars : Applied("add_t", NoXyz, c, add_t(result, c))

Sub == \E o \in Colors : Applied("sub", o, NoScalar, sub(result, o))

SubT == \E c \in Scalars : Applied("sub_t", NoXyz, c, sub_t(result, c))

Mul == \E o \in Colors : Applied("mul", o, NoScalar, mul(result, o))

MulT == \E c \in Scalars : Applied("mul_t", NoXyz, c, mul_t(result, c))

\* Div<Xyz<T>>; a value may be divided by itself.
Div == \E o \in Colors \cup {result} : Applied("div", o, NoScalar, div(result, o))

DivT == \E c \in Scalars : Applied("div_t", NoXyz, c, div_t(result, c))

Next ==
    \/ NewDefault
    \/ NewXyz
    \/ NewXyza
    \/ FromRgb
    \/ FromLuma
    \/ FromLab
    \/ Clamp
    \/ ClampSelf
    \/ Mix
    \/ Lighten
    \/ Add
    \/ AddT
    \/ Sub
    \/ SubT
    \/ Mul
    \/ MulT
    \/ Div
    \/ DivT

Spec == Init /\ [][Next]_vars

(***************************************************************************)
(* Properties.                                                             *)
(***************************************************************************)

Channels(c) == {c.x, c.y, c.z, c.alpha}

NoNaN(c) == \A v \in Channels(c) : ~IsNaN(v)

AllFinite(c) == \A v \in Channels(c) : IsFinite(v)

\* a + b and a - b of two finite values come out without rounding or overflow.
ExactSum(a, b) == IsFinite(FAdd(a, b)) /\ Val(FAdd(a, b)) = Val(a) + Val(b)

ExactDiff(a, b) == IsFinite(FSub(a, b)) /\ Val(FSub(a, b)) = Val(a) - Val(b)

\* The spacing of the format just below 1.0: 2^-PrecBits.
Epsilon == One \div Pow2(PrecBits)

Clamped == op \in {"clamp", "clamp_self"}

\* C1 as stated: whatever the value, the clamped value is valid.
C1_ClampedIsValid == Clamped => is_valid(result)

\* C1, amended: a value none of whose channels is NaN, however far out of
\* range and infinite channels included, is valid once clamped, by clamp and
\* by clamp_self alike.
C1_ClampedIsValidUnlessNaN == (Clamped /\ NoNaN(self)) => is_valid(result)

\* A value with an infinite and a negative channel, valid once clamped.
C1_Witness ==
    /\ op = "clamp_self"
    /\ NoNaN(self)
    /\ \E v \in Channels(self) : IsInf(v)
    /\ \E v \in Channels(self) : FLt(v, zero) /\ IsFinite(v)
    /\ is_valid(result)

\* C2 as stated: mix(a, a, f) == a, mix(a, b, 0) == a and mix(a, b, 1) == b,
\* by the == of Xyz, for all values and factors.
C2_MixIdentities ==
    op = "mix" =>
        /\ (other = self => Xyz_eq(result, self))
        /\ (FEq(scalar, zero) => Xyz_eq(result, self))
        /\ (FEq(scalar, one) => Xyz_eq(result, other))

\* C2, amended: for finite a and b and a factor that is not NaN,
\* mix(a, a, f) == a; mix(a, b, 0) == a when no difference b - a overflows;
\* mix(a, b, 1) == b when no difference b - a is rounded, and for valid a and
\* b every channel of mix(a, b, 1) is within 2^-PrecBits of b's.
C2_MixIdentitiesExact ==
    (op = "mix" /\ AllFinite(self) /\ AllFinite(other) /\ ~IsNaN(scalar)) =>
        /\ (other = self => Xyz_eq(result, self))
        /\ ((FEq(scalar, zero) /\ AllFinite(sub(other, self)))
                => Xyz_eq(result, self))
        /\ ((FEq(scalar, one)
                /\ ExactDiff(other.x, self.x) /\ ExactDiff(other.y, self.y)
                /\ ExactDiff(other.z, self.z)
                /\ ExactDiff(other.alpha, self.alpha))
                => Xyz_eq(result, other))
        /\ ((FEq(scalar, one) /\ is_valid(self) /\ is_valid(other))
                => /\ Abs(Val(result.x) - Val(other.x)) <= Epsilon
                   /\ Abs(Val(result.y) - Val(other.y)) <= Epsilon
                   /\ Abs(Val(result.z) - Val(other.z)) <= Epsilon
                   /\ Abs(Val(result.alpha) - Val(other.alpha)) <= Epsilon)

\* Two different valid values whose differences are exact: mix(a, b, 1) is b.
C2_Witness ==
    /\ op = "mix"
    /\ scalar = one
    /\ is_valid(self)
    /\ is_valid(other)
    /\ ~Xyz_eq(self, other)
    /\ \A v \in Channels(self) : ~IsZero(v)
    /\ ExactDiff(other.x, self.x) /\ ExactDiff(other.y, self.y)
    /\ ExactDiff(other.z, self.z) /\ ExactDiff(other.alpha, self.alpha)
    /\ Xyz_eq(result, other)

C5_RgbToXyz ==
    op = "from_rgb" =>
        /\ result.alpha = from.alpha
        /\ result.x = FAdd(FAdd(FMul(from.red, Lit(4124, 10000)),
                                FMul(from.green, Lit(3576, 10000))),
                           FMul(from.blue, Lit(1805, 10000)))
        /\ result.y = FAdd(FAdd(FMul(from.red, Lit(2126, 10000)),
                                FMul(from.green, Lit(7152, 10000))),
                           FMul(from.blue, Lit(722, 10000)))
        /\ result.z = FAdd(FAdd(FMul(from.red, Lit(193, 10000)),
                                FMul(from.green, Lit(1192, 10000))),
                           FMul(from.blue, Lit(9505, 10000)))
        /\ (from = Rgb(one, zero, zero, one) =>
               Xyz_eq(result,
                      xyz(Lit(4124, 10000), Lit(2126, 10000), Lit(193, 10000))))
        /\ (from = Rgb(zero, one, zero, one) =>
               Xyz_eq(result,
                      xyz(Lit(3576, 10000), Lit(7152, 10000), Lit(1192, 10000))))
        /\ (from = Rgb(zero, zero, one, one) =>
               Xyz_eq(result,
                      xyz(Lit(1805, 10000), Lit(722, 10000), Lit(9505, 10000))))

\* Linear green, converted: the second column of the matrix.
C5_Witness ==
    /\ op = "from_rgb"
    /\ from = Rgb(zero, one, zero, one)
    /\ result = xyz(Lit(3576, 10000), Lit(7152, 10000), Lit(1192, 10000))
    /\ result.x # Lit(1805, 10000)

\* The inverse of the Lab nonlinearity as C6 gives it: the cube above the
\* breakpoint 6/29, the line 3 * (6/29)^2 * (t - 4/29) at and below it.
C6_finv(t) ==
    IF FLe(t, Lit(6, 29)) \/ IsNaN(t)
    THEN FMul(FMul(Lit(3, 1), Lit(36, 841)), FSub(t, Lit(4, 29)))
    ELSE FMul(FMul(t, t), t)

\* C6: From<Lab<T>> takes fy = (l * 100 + 16) / 116 (the division done as a
\* product with 1/116), fx = fy + a * 128 / 500 and fz = fy - b * 128 / 200,
\* returns X_N * finv(fx), Y_N * finv(fy), Z_N * finv(fz) and alpha as it
\* came; finv takes the linear branch at the breakpoint itself.
C6_LabToXyz ==
    op = "from_lab" =>
        LET fy == FMul(FDiv(one, Lit(116, 1)),
                       FAdd(FMul(from.l, Lit(100, 1)), Lit(16, 1)))
            fx == FAdd(fy, FMul(FMul(FDiv(one, Lit(500, 1)), from.a),
                                Lit(128, 1)))
            fz == FSub(fy, FMul(FMul(FDiv(one, Lit(200, 1)), from.b),
                                Lit(128, 1)))
        IN  /\ result.x = FMul(X_N, C6_finv(fx))
            /\ result.y = FMul(Y_N, C6_finv(fy))
            /\ result.z = FMul(Z_N, C6_finv(fz))
            /\ result.alpha = from.alpha

\* A Lab value whose fx is the breakpoint itself, where the two branches of
\* finv differ.
C6_Witness ==
    /\ op = "from_lab"
    /\ FAdd(lab_fy(from),
            FMul(FMul(FDiv(one, Lit(500, 1)), from.a), Lit(128, 1)))
         = Lit(6, 29)
    /\ result.x = FMul(X_N, FMul(FMul(Lit(3, 1), Lit(36, 841)),
                                 FSub(Lit(6, 29), Lit(4, 29))))
    /\ result.x # FMul(X_N, FMul(FMul(Lit(6, 29), Lit(6, 29)), Lit(6, 29)))

\* C7: lighten adds amount to y, unclamped, and leaves x, z and alpha as they
\* were.
C7_LightenFrame ==
    op = "lighten" =>
        /\ result.x = self.x
        /\ result.z = self.z
        /\ result.alpha = self.alpha
        /\ result.y = FAdd(self.y, scalar)

\* A valid value that lighten takes out of range.
C7_Witness ==
    /\ op = "lighten"
    /\ is_valid(self)
    /\ FGt(result.y, one)
    /\ ~is_valid(result)

\* C8 as stated: a + b - b == a, for a colour b and for a scalar b, and
\* a / a == (1, 1, 1, 1) when no channel of a is zero.
C8_RoundTrips ==
    /\ (op = "add" => Xyz_eq(sub(result, other), self))
    /\ (op = "add_t" => Xyz_eq(sub_t(result, scalar), self))
    /\ ((op = "div" /\ other = self /\ \A v \in Channels(self) : ~IsZero(v))
            => Xyz_eq(result, xyza(one, one, one, one)))

\* C8, amended: a + b - b == a when a and b are finite and no channel sum
\* a + b is rounded or overflows; a / a == (1, 1, 1, 1) when every channel of
\* a is finite and not zero.
C8_RoundTripsExact ==
    /\ ((op = "add"
            /\ ExactSum(self.x, other.x) /\ ExactSum(self.y, other.y)
            /\ ExactSum(self.z, other.z) /\ ExactSum(self.alpha, other.alpha))
            => Xyz_eq(sub(result, other), self))
    /\ ((op = "add_t"
            /\ ExactSum(self.x, scalar) /\ ExactSum(self.y, scalar)
            /\ ExactSum(self.z, scalar) /\ ExactSum(self.alpha, scalar))
            => Xyz_eq(sub_t(result, scalar), self))
    /\ ((op = "div" /\ other = self
            /\ \A v \in Channels(self) : IsFinite(v) /\ ~IsZero(v))
            => Xyz_eq(result, xyza(one, one, one, one)))

\* A sum that changes a and is exact in every channel, undone by - b.
C8_Witness ==
    /\ op = "add"
    /\ ExactSum(self.x, other.x) /\ ExactSum(self.y, other.y)
    /\ ExactSum(self.z, other.z) /\ ExactSum(self.alpha, other.alpha)
    /\ \A v \in Channels(self) \cup Channels(other) : ~IsZero(v)
    /\ ~Xyz_eq(result, self)
    /\ Xyz_eq(sub(result, other), self)

\* C9: the default value is x = y = z = 0 with alpha = 1 and is valid; xyz
\* sets alpha to 1 whatever its arguments.
C9_DefaultOpaqueBlack ==
    /\ (op = "default" =>
            /\ result.x = zero /\ result.y = zero /\ result.z = zero
            /\ result.alpha = one
            /\ is_valid(result))
    /\ (op = "xyz" => result.alpha = one)

\* The default value, as built: opaque black, valid.
C9_Witness ==
    /\ op = "default"
    /\ result = xyza(zero, zero, zero, one)
    /\ is_valid(result)

====
